---------------------------- MODULE Spec2Model ----------------------------
(***************************************************************************)
(* xhm99: the HFE image manager of the TI 99 cross-development tools.      *)
(* A model of the sector image <-> HFE image codec of xhm99.py: the FM and *)
(* MFM bit codecs, the CRC-16, the track assembler (create_tracks), the    *)
(* HFE container (create_image, HFEDisk.__init__, get_tracks), the track   *)
(* parser (extract_sectors) and the commands of main that drive them.      *)
(*                                                                         *)
(* Bytes are naturals 0..255, byte strings and lists are sequences.  The   *)
(* source indexes from 0, sequences from 1: a source index n is n + 1 here.*)
(***************************************************************************)
EXTENDS Integers, Sequences, FiniteSets, TLC

(* The largest track count (sector image byte 0x11) of the disks drawn. *)
MaxTracks == 2

(* The largest track number an interleave query asks for. *)
MaxTrackNo == 79

VARIABLES
  image,    \* the sector image file given to --to-hfe
  hfe,      \* the HFE image file, <<>> while none has been written
  edit,     \* how the HFE file differs from what --to-hfe wrote ("none": not at all)
  cmd,      \* the command main ran last
  result,   \* the data a reading command holds for writing, <<>> after --to-hfe
  stdout,   \* what the last command printed
  err,      \* the exception the last command ended with
  il        \* interleave query: the arguments and the value of fmt.interleave

vars == <<image, hfe, edit, cmd, result, stdout, err, il>>

----------------------------------------------------------------------------
(* Utility functions *)

Min(a, b) == IF a < b THEN a ELSE b

(* a function with domain 1..n as a sequence: the same value, in the form  *)
(* in which TLC holds a sequence                                            *)
list(f) == f \o <<>>

(* s * n *)
Rep(s, n) == list([k \in 1..(n * Len(s)) |-> s[((k - 1) % Len(s)) + 1]])

(* data[a:b] for 0 <= a, 0 <= b *)
Slice(data, a, b) == SubSeq(data, a + 1, Min(b, Len(data)))

(* a ^ b, bit by bit *)
RECURSIVE xor_bits(_, _)
xor_bits(a, b) ==
  IF a = 0 THEN b
  ELSE IF b = 0 THEN a
  ELSE ((a + b) % 2) + 2 * xor_bits(a \div 2, b \div 2)

(* a ^ b for a, b < 16, and from it for a, b < 256, tabulated *)
xor4 == list([a \in 1..16 |-> list([b \in 1..16 |-> xor_bits(a - 1, b - 1)])])

xor8 ==
  list([a \in 1..256 |->
    list([b \in 1..256 |->
      16 * xor4[((a - 1) \div 16) + 1][((b - 1) \div 16) + 1]
        + xor4[((a - 1) % 16) + 1][((b - 1) % 16) + 1]])])

(* a ^ b for a, b < 2^16: byte by byte *)
Xor(a, b) ==
  256 * xor8[(a \div 256) + 1][(b \div 256) + 1] + xor8[(a % 256) + 1][(b % 256) + 1]

(* v & m # 0 for a single-bit mask m *)
Bit(v, m) == (v \div m) % 2 = 1

ordw(word) == word[1] * 256 + word[2]

rchrw(word) == <<word % 256, word \div 256>>

(* chunk(data, size)[n], n counted from 0 *)
chunk_at(data, size, n) == Slice(data, n * size, (n + 1) * size)

(* len(chunk(data, size)) *)
chunk_count(data, size) == (Len(data) + size - 1) \div size

chunk(data, size) ==
  list([n \in 1..chunk_count(data, size) |-> chunk_at(data, size, n - 1)])

RECURSIVE flatten_from(_, _)
flatten_from(list_of_lists, n) ==
  IF n > Len(list_of_lists) THEN <<>>
  ELSE list_of_lists[n] \o flatten_from(list_of_lists, n + 1)

flatten(list_of_lists) == flatten_from(list_of_lists, 1)

(* one round of the loop of crc16 on c = <<msb, lsb>> *)
crc16_step(c, b) ==
  LET x0 == Xor(b, c[1])
      x  == Xor(x0, x0 \div 16)
  IN  << Xor(Xor(c[2], x \div 8), x * 16) % 256, Xor(x, x * 32) % 256 >>

(* the loop of crc16 over stream[lo..hi], run as its first and then its     *)
(* second half (the test of Len(half) has TLC compute the first half before *)
(* it enters the second)                                                    *)
RECURSIVE crc16_loop(_, _, _, _)
crc16_loop(c, stream, lo, hi) ==
  IF lo > hi THEN c
  ELSE IF lo = hi THEN crc16_step(c, stream[lo])
  ELSE LET half == crc16_loop(c, stream, lo, (lo + hi) \div 2)
       IN  IF Len(half) = 2
           THEN crc16_loop(half, stream, ((lo + hi) \div 2) + 1, hi)
           ELSE half

crc16(crc, stream) == crc16_loop(<<crc \div 256, crc % 256>>, stream, 1, Len(stream))

----------------------------------------------------------------------------
(* class SDFormat *)

SDFormat ==
  [ dd             |-> FALSE,
    sectors        |-> 9,
    track_len      |-> 17 + 9 * 334 + 113,
    leadin         |-> <<\haa, \ha8, \ha8, \h22>> \o Rep(<<\haa>>, 4 * 16),
    lvleadin       |-> 17,
    leadout        |-> Rep(<<\haa>>, 4 * 77) \o <<\haa, \h50>> \o Rep(<<\h55>>, 2 + 4 * 35),
    lvleadout      |-> 113,
    address_mark   |-> <<\haa, \h88, \ha8, \h2a>>,
    vaddress_mark  |-> <<\hfe>>,
    lvaddress_mark |-> 1,
    data_mark      |-> <<\haa, \h88, \h28, \haa>>,
    vdata_mark     |-> <<\hfb>>,
    lvdata_mark    |-> 1,
    pregap         |-> Rep(<<\h22>>, 4 * 6),
    lvpregap       |-> 6,
    gap1           |-> Rep(<<\haa>>, 4 * 11) \o Rep(<<\h22>>, 4 * 6),
    lvgap1         |-> 17,
    gap2           |-> Rep(<<\haa>>, 4 * 45),
    lvgap2         |-> 45 ]

SD_sector_interleave ==
  << 0, 7, 5, 3, 1, 8, 6, 4, 2,
     6, 4, 2, 0, 7, 5, 3, 1, 8,
     3, 1, 8, 6, 4, 2, 0, 7, 5 >>

sector_interleave_wtf ==
  << 4, 2, 0, 7, 5, 3, 1, 8, 6,
     1, 8, 6, 4, 2, 0, 7, 5, 3,
     7, 5, 3, 1, 8, 6, 4, 2, 0 >>

(* twisted encoded bytes with clock bits *)
fm_codes ==
  << <<\h22, \h22, \h22, \h22>>, <<\h22, \h22, \h22, \ha2>>, <<\h22, \h22, \h22, \h2a>>,
     <<\h22, \h22, \h22, \haa>>, <<\h22, \h22, \ha2, \h22>>, <<\h22, \h22, \ha2, \ha2>>,
     <<\h22, \h22, \ha2, \h2a>>, <<\h22, \h22, \ha2, \haa>>, <<\h22, \h22, \h2a, \h22>>,
     <<\h22, \h22, \h2a, \ha2>>, <<\h22, \h22, \h2a, \h2a>>, <<\h22, \h22, \h2a, \haa>>,
     <<\h22, \h22, \haa, \h22>>, <<\h22, \h22, \haa, \ha2>>, <<\h22, \h22, \haa, \h2a>>,
     <<\h22, \h22, \haa, \haa>>, <<\h22, \ha2, \h22, \h22>>, <<\h22, \ha2, \h22, \ha2>>,
     <<\h22, \ha2, \h22, \h2a>>, <<\h22, \ha2, \h22, \haa>>, <<\h22, \ha2, \ha2, \h22>>,
     <<\h22, \ha2, \ha2, \ha2>>, <<\h22, \ha2, \ha2, \h2a>>, <<\h22, \ha2, \ha2, \haa>>,
     <<\h22, \ha2, \h2a, \h22>>, <<\h22, \ha2, \h2a, \ha2>>, <<\h22, \ha2, \h2a, \h2a>>,
     <<\h22, \ha2, \h2a, \haa>>, <<\h22, \ha2, \haa, \h22>>, <<\h22, \ha2, \haa, \ha2>>,
     <<\h22, \ha2, \haa, \h2a>>, <<\h22, \ha2, \haa, \haa>>, <<\h22, \h2a, \h22, \h22>>,
     <<\h22, \h2a, \h22, \ha2>>, <<\h22, \h2a, \h22, \h2a>>, <<\h22, \h2a, \h22, \haa>>,
     <<\h22, \h2a, \ha2, \h22>>, <<\h22, \h2a, \ha2, \ha2>>, <<\h22, \h2a, \ha2, \h2a>>,
     <<\h22, \h2a, \ha2, \haa>>, <<\h22, \h2a, \h2a, \h22>>, <<\h22, \h2a, \h2a, \ha2>>,
     <<\h22, \h2a, \h2a, \h2a>>, <<\h22, \h2a, \h2a, \haa>>, <<\h22, \h2a, \haa, \h22>>,
     <<\h22, \h2a, \haa, \ha2>>, <<\h22, \h2a, \haa, \h2a>>, <<\h22, \h2a, \haa, \haa>>,
     <<\h22, \haa, \h22, \h22>>, <<\h22, \haa, \h22, \ha2>>, <<\h22, \haa, \h22, \h2a>>,
     <<\h22, \haa, \h22, \haa>>, <<\h22, \haa, \ha2, \h22>>, <<\h22, \haa, \ha2, \ha2>>,
     <<\h22, \haa, \ha2, \h2a>>, <<\h22, \haa, \ha2, \haa>>, <<\h22, \haa, \h2a, \h22>>,
     <<\h22, \haa, \h2a, \ha2>>, <<\h22, \haa, \h2a, \h2a>>, <<\h22, \haa, \h2a, \haa>>,
     <<\h22, \haa, \haa, \h22>>, <<\h22, \haa, \haa, \ha2>>, <<\h22, \haa, \haa, \h2a>>,
     <<\h22, \haa, \haa, \haa>>, <<\ha2, \h22, \h22, \h22>>, <<\ha2, \h22, \h22, \ha2>>,
     <<\ha2, \h22, \h22, \h2a>>, <<\ha2, \h22, \h22, \haa>>, <<\ha2, \h22, \ha2, \h22>>,
     <<\ha2, \h22, \ha2, \ha2>>, <<\ha2, \h22, \ha2, \h2a>>, <<\ha2, \h22, \ha2, \haa>>,
     <<\ha2, \h22, \h2a, \h22>>, <<\ha2, \h22, \h2a, \ha2>>, <<\ha2, \h22, \h2a, \h2a>>,
     <<\ha2, \h22, \h2a, \haa>>, <<\ha2, \h22, \haa, \h22>>, <<\ha2, \h22, \haa, \ha2>>,
     <<\ha2, \h22, \haa, \h2a>>, <<\ha2, \h22, \haa, \haa>>, <<\ha2, \ha2, \h22, \h22>>,
     <<\ha2, \ha2, \h22, \ha2>>, <<\ha2, \ha2, \h22, \h2a>>, <<\ha2, \ha2, \h22, \haa>>,
     <<\ha2, \ha2, \ha2, \h22>>, <<\ha2, \ha2, \ha2, \ha2>>, <<\ha2, \ha2, \ha2, \h2a>>,
     <<\ha2, \ha2, \ha2, \haa>>, <<\ha2, \ha2, \h2a, \h22>>, <<\ha2, \ha2, \h2a, \ha2>>,
     <<\ha2, \ha2, \h2a, \h2a>>, <<\ha2, \ha2, \h2a, \haa>>, <<\ha2, \ha2, \haa, \h22>>,
     <<\ha2, \ha2, \haa, \ha2>>, <<\ha2, \ha2, \haa, \h2a>>, <<\ha2, \ha2, \haa, \haa>>,
     <<\ha2, \h2a, \h22, \h22>>, <<\ha2, \h2a, \h22, \ha2>>, <<\ha2, \h2a, \h22, \h2a>>,
     <<\ha2, \h2a, \h22, \haa>>, <<\ha2, \h2a, \ha2, \h22>>, <<\ha2, \h2a, \ha2, \ha2>>,
     <<\ha2, \h2a, \ha2, \h2a>>, <<\ha2, \h2a, \ha2, \haa>>, <<\ha2, \h2a, \h2a, \h22>>,
     <<\ha2, \h2a, \h2a, \ha2>>, <<\ha2, \h2a, \h2a, \h2a>>, <<\ha2, \h2a, \h2a, \haa>>,
     <<\ha2, \h2a, \haa, \h22>>, <<\ha2, \h2a, \haa, \ha2>>, <<\ha2, \h2a, \haa, \h2a>>,
     <<\ha2, \h2a, \haa, \haa>>, <<\ha2, \haa, \h22, \h22>>, <<\ha2, \haa, \h22, \ha2>>,
     <<\ha2, \haa, \h22, \h2a>>, <<\ha2, \haa, \h22, \haa>>, <<\ha2, \haa, \ha2, \h22>>,
     <<\ha2, \haa, \ha2, \ha2>>, <<\ha2, \haa, \ha2, \h2a>>, <<\ha2, \haa, \ha2, \haa>>,
     <<\ha2, \haa, \h2a, \h22>>, <<\ha2, \haa, \h2a, \ha2>>, <<\ha2, \haa, \h2a, \h2a>>,
     <<\ha2, \haa, \h2a, \haa>>, <<\ha2, \haa, \haa, \h22>>, <<\ha2, \haa, \haa, \ha2>>,
     <<\ha2, \haa, \haa, \h2a>>, <<\ha2, \haa, \haa, \haa>>, <<\h2a, \h22, \h22, \h22>>,
     <<\h2a, \h22, \h22, \ha2>>, <<\h2a, \h22, \h22, \h2a>>, <<\h2a, \h22, \h22, \haa>>,
     <<\h2a, \h22, \ha2, \h22>>, <<\h2a, \h22, \ha2, \ha2>>, <<\h2a, \h22, \ha2, \h2a>>,
     <<\h2a, \h22, \ha2, \haa>>, <<\h2a, \h22, \h2a, \h22>>, <<\h2a, \h22, \h2a, \ha2>>,
     <<\h2a, \h22, \h2a, \h2a>>, <<\h2a, \h22, \h2a, \haa>>, <<\h2a, \h22, \haa, \h22>>,
     <<\h2a, \h22, \haa, \ha2>>, <<\h2a, \h22, \haa, \h2a>>, <<\h2a, \h22, \haa, \haa>>,
     <<\h2a, \ha2, \h22, \h22>>, <<\h2a, \ha2, \h22, \ha2>>, <<\h2a, \ha2, \h22, \h2a>>,
     <<\h2a, \ha2, \h22, \haa>>, <<\h2a, \ha2, \ha2, \h22>>, <<\h2a, \ha2, \ha2, \ha2>>,
     <<\h2a, \ha2, \ha2, \h2a>>, <<\h2a, \ha2, \ha2, \haa>>, <<\h2a, \ha2, \h2a, \h22>>,
     <<\h2a, \ha2, \h2a, \ha2>>, <<\h2a, \ha2, \h2a, \h2a>>, <<\h2a, \ha2, \h2a, \haa>>,
     <<\h2a, \ha2, \haa, \h22>>, <<\h2a, \ha2, \haa, \ha2>>, <<\h2a, \ha2, \haa, \h2a>>,
     <<\h2a, \ha2, \haa, \haa>>, <<\h2a, \h2a, \h22, \h22>>, <<\h2a, \h2a, \h22, \ha2>>,
     <<\h2a, \h2a, \h22, \h2a>>, <<\h2a, \h2a, \h22, \haa>>, <<\h2a, \h2a, \ha2, \h22>>,
     <<\h2a, \h2a, \ha2, \ha2>>, <<\h2a, \h2a, \ha2, \h2a>>, <<\h2a, \h2a, \ha2, \haa>>,
     <<\h2a, \h2a, \h2a, \h22>>, <<\h2a, \h2a, \h2a, \ha2>>, <<\h2a, \h2a, \h2a, \h2a>>,
     <<\h2a, \h2a, \h2a, \haa>>, <<\h2a, \h2a, \haa, \h22>>, <<\h2a, \h2a, \haa, \ha2>>,
     <<\h2a, \h2a, \haa, \h2a>>, <<\h2a, \h2a, \haa, \haa>>, <<\h2a, \haa, \h22, \h22>>,
     <<\h2a, \haa, \h22, \ha2>>, <<\h2a, \haa, \h22, \h2a>>, <<\h2a, \haa, \h22, \haa>>,
     <<\h2a, \haa, \ha2, \h22>>, <<\h2a, \haa, \ha2, \ha2>>, <<\h2a, \haa, \ha2, \h2a>>,
     <<\h2a, \haa, \ha2, \haa>>, <<\h2a, \haa, \h2a, \h22>>, <<\h2a, \haa, \h2a, \ha2>>,
     <<\h2a, \haa, \h2a, \h2a>>, <<\h2a, \haa, \h2a, \haa>>, <<\h2a, \haa, \haa, \h22>>,
     <<\h2a, \haa, \haa, \ha2>>, <<\h2a, \haa, \haa, \h2a>>, <<\h2a, \haa, \haa, \haa>>,
     <<\haa, \h22, \h22, \h22>>, <<\haa, \h22, \h22, \ha2>>, <<\haa, \h22, \h22, \h2a>>,
     <<\haa, \h22, \h22, \haa>>, <<\haa, \h22, \ha2, \h22>>, <<\haa, \h22, \ha2, \ha2>>,
     <<\haa, \h22, \ha2, \h2a>>, <<\haa, \h22, \ha2, \haa>>, <<\haa, \h22, \h2a, \h22>>,
     <<\haa, \h22, \h2a, \ha2>>, <<\haa, \h22, \h2a, \h2a>>, <<\haa, \h22, \h2a, \haa>>,
     <<\haa, \h22, \haa, \h22>>, <<\haa, \h22, \haa, \ha2>>, <<\haa, \h22, \haa, \h2a>>,
     <<\haa, \h22, \haa, \haa>>, <<\haa, \ha2, \h22, \h22>>, <<\haa, \ha2, \h22, \ha2>>,
     <<\haa, \ha2, \h22, \h2a>>, <<\haa, \ha2, \h22, \haa>>, <<\haa, \ha2, \ha2, \h22>>,
     <<\haa, \ha2, \ha2, \ha2>>, <<\haa, \ha2, \ha2, \h2a>>, <<\haa, \ha2, \ha2, \haa>>,
     <<\haa, \ha2, \h2a, \h22>>, <<\haa, \ha2, \h2a, \ha2>>, <<\haa, \ha2, \h2a, \h2a>>,
     <<\haa, \ha2, \h2a, \haa>>, <<\haa, \ha2, \haa, \h22>>, <<\haa, \ha2, \haa, \ha2>>,
     <<\haa, \ha2, \haa, \h2a>>, <<\haa, \ha2, \haa, \haa>>, <<\haa, \h2a, \h22, \h22>>,
     <<\haa, \h2a, \h22, \ha2>>, <<\haa, \h2a, \h22, \h2a>>, <<\haa, \h2a, \h22, \haa>>,
     <<\haa, \h2a, \ha2, \h22>>, <<\haa, \h2a, \ha2, \ha2>>, <<\haa, \h2a, \ha2, \h2a>>,
     <<\haa, \h2a, \ha2, \haa>>, <<\haa, \h2a, \h2a, \h22>>, <<\haa, \h2a, \h2a, \ha2>>,
     <<\haa, \h2a, \h2a, \h2a>>, <<\haa, \h2a, \h2a, \haa>>, <<\haa, \h2a, \haa, \h22>>,
     <<\haa, \h2a, \haa, \ha2>>, <<\haa, \h2a, \haa, \h2a>>, <<\haa, \h2a, \haa, \haa>>,
     <<\haa, \haa, \h22, \h22>>, <<\haa, \haa, \h22, \ha2>>, <<\haa, \haa, \h22, \h2a>>,
     <<\haa, \haa, \h22, \haa>>, <<\haa, \haa, \ha2, \h22>>, <<\haa, \haa, \ha2, \ha2>>,
     <<\haa, \haa, \ha2, \h2a>>, <<\haa, \haa, \ha2, \haa>>, <<\haa, \haa, \h2a, \h22>>,
     <<\haa, \haa, \h2a, \ha2>>, <<\haa, \haa, \h2a, \h2a>>, <<\haa, \haa, \h2a, \haa>>,
     <<\haa, \haa, \haa, \h22>>, <<\haa, \haa, \haa, \ha2>>, <<\haa, \haa, \haa, \h2a>>,
     <<\haa, \haa, \haa, \haa>> >>

(* SDFormat.decode: the byte of one 4-byte group.  rordl puts word[3] in    *)
(* bits 31..24, word[2] in 23..16, word[1] in 15..8 and word[0] in 7..0, so *)
(* mask 0x80000000 is bit 7 of word[3], 0x08000000 its bit 3, and so on.    *)
SD_decode_word(word) ==
    (IF Bit(word[4], 128) THEN 1 ELSE 0)
  + (IF Bit(word[4], 8) THEN 2 ELSE 0)
  + (IF Bit(word[3], 128) THEN 4 ELSE 0)
  + (IF Bit(word[3], 8) THEN 8 ELSE 0)
  + (IF Bit(word[2], 128) THEN 16 ELSE 0)
  + (IF Bit(word[2], 8) THEN 32 ELSE 0)
  + (IF Bit(word[1], 128) THEN 64 ELSE 0)
  + (IF Bit(word[1], 8) THEN 128 ELSE 0)

(* rordl indexes word[3]: a last group shorter than 4 bytes is an IndexError *)
SD_decode_fails(stream) == Len(stream) % 4 # 0

SD_decode(stream) ==
  list([n \in 1..(Len(stream) \div 4) |-> SD_decode_word(SubSeq(stream, 4 * n - 3, 4 * n))])

SD_encode(track) ==
  list([k \in 1..(4 * Len(track)) |->
          fm_codes[track[((k - 1) \div 4) + 1] + 1][((k - 1) % 4) + 1]])

(* SD_interleave with the off-series starting at track 40 *)
SD_interleave_from_40(side, track, sector, wtf80t) ==
  IF ~wtf80t \/ side = 0
  THEN SD_sector_interleave[((track * SDFormat.sectors + sector) % 27) + 1]
  ELSE IF track < 40
  THEN sector_interleave_wtf[((track * SDFormat.sectors + sector) % 27) + 1]
  ELSE SD_sector_interleave[(((track - 40) * SDFormat.sectors + sector) % 27) + 1]

SD_interleave(side, track, sector, wtf80t) ==
  IF ~wtf80t \/ side = 0
  THEN SD_sector_interleave[((track * SDFormat.sectors + sector) % 27) + 1]
  ELSE IF track < 37
  THEN sector_interleave_wtf[((track * SDFormat.sectors + sector) % 27) + 1]
  ELSE SD_sector_interleave[(((track - 37) * SDFormat.sectors + sector) % 27) + 1]

(* clocks are correct *)
SD_fix_clocks(stream) == stream

----------------------------------------------------------------------------
(* class DDFormat *)

DDFormat ==
  [ dd             |-> TRUE,
    sectors        |-> 18,
    track_len      |-> 32 + 18 * 342 + 84,
    leadin         |-> Rep(<<\h49, \h2a>>, 32),
    lvleadin       |-> 32,
    leadout        |-> Rep(<<\h49, \h2a>>, 84),
    lvleadout      |-> 84,
    address_mark   |-> <<\h22, \h91, \h22, \h91, \h22, \h91, \haa, \h2a>>,
    vaddress_mark  |-> <<\ha1, \ha1, \ha1, \hfe>>,
    lvaddress_mark |-> 4,
    data_mark      |-> <<\h22, \h91, \h22, \h91, \h22, \h91, \haa, \ha2>>,
    vdata_mark     |-> <<\ha1, \ha1, \ha1, \hfb>>,
    lvdata_mark    |-> 4,
    pregap         |-> Rep(<<\h55>>, 2 * 12),
    lvpregap       |-> 12,
    gap1           |-> Rep(<<\h49, \h2a>>, 22) \o Rep(<<\h55>>, 2 * 12),
    lvgap1         |-> 34,
    gap2           |-> Rep(<<\h49, \h2a>>, 24),
    lvgap2         |-> 24 ]

mfm_codes ==
  << <<\h55, \h55>>, <<\h55, \h95>>, <<\h55, \h25>>, <<\h55, \ha5>>,
     <<\h55, \h49>>, <<\h55, \h89>>, <<\h55, \h29>>, <<\h55, \ha9>>,
     <<\h55, \h52>>, <<\h55, \h92>>, <<\h55, \h22>>, <<\h55, \ha2>>,
     <<\h55, \h4a>>, <<\h55, \h8a>>, <<\h55, \h2a>>, <<\h55, \haa>>,
     <<\h95, \h54>>, <<\h95, \h94>>, <<\h95, \h24>>, <<\h95, \ha4>>,
     <<\h95, \h48>>, <<\h95, \h88>>, <<\h95, \h28>>, <<\h95, \ha8>>,
     <<\h95, \h52>>, <<\h95, \h92>>, <<\h95, \h22>>, <<\h95, \ha2>>,
     <<\h95, \h4a>>, <<\h95, \h8a>>, <<\h95, \h2a>>, <<\h95, \haa>>,
     <<\h25, \h55>>, <<\h25, \h95>>, <<\h25, \h25>>, <<\h25, \ha5>>,
     <<\h25, \h49>>, <<\h25, \h89>>, <<\h25, \h29>>, <<\h25, \ha9>>,
     <<\h25, \h52>>, <<\h25, \h92>>, <<\h25, \h22>>, <<\h25, \ha2>>,
     <<\h25, \h4a>>, <<\h25, \h8a>>, <<\h25, \h2a>>, <<\h25, \haa>>,
     <<\ha5, \h54>>, <<\ha5, \h94>>, <<\ha5, \h24>>, <<\ha5, \ha4>>,
     <<\ha5, \h48>>, <<\ha5, \h88>>, <<\ha5, \h28>>, <<\ha5, \ha8>>,
     <<\ha5, \h52>>, <<\ha5, \h92>>, <<\ha5, \h22>>, <<\ha5, \ha2>>,
     <<\ha5, \h4a>>, <<\ha5, \h8a>>, <<\ha5, \h2a>>, <<\ha5, \haa>>,
     <<\h49, \h55>>, <<\h49, \h95>>, <<\h49, \h25>>, <<\h49, \ha5>>,
     <<\h49, \h49>>, <<\h49, \h89>>, <<\h49, \h29>>, <<\h49, \ha9>>,
     <<\h49, \h52>>, <<\h49, \h92>>, <<\h49, \h22>>, <<\h49, \ha2>>,
     <<\h49, \h4a>>, <<\h49, \h8a>>, <<\h49, \h2a>>, <<\h49, \haa>>,
     <<\h89, \h54>>, <<\h89, \h94>>, <<\h89, \h24>>, <<\h89, \ha4>>,
     <<\h89, \h48>>, <<\h89, \h88>>, <<\h89, \h28>>, <<\h89, \ha8>>,
     <<\h89, \h52>>, <<\h89, \h92>>, <<\h89, \h22>>, <<\h89, \ha2>>,
     <<\h89, \h4a>>, <<\h89, \h8a>>, <<\h89, \h2a>>, <<\h89, \haa>>,
     <<\h29, \h55>>, <<\h29, \h95>>, <<\h29, \h25>>, <<\h29, \ha5>>,
     <<\h29, \h49>>, <<\h29, \h89>>, <<\h29, \h29>>, <<\h29, \ha9>>,
     <<\h29, \h52>>, <<\h29, \h92>>, <<\h29, \h22>>, <<\h29, \ha2>>,
     <<\h29, \h4a>>, <<\h29, \h8a>>, <<\h29, \h2a>>, <<\h29, \haa>>,
     <<\ha9, \h54>>, <<\ha9, \h94>>, <<\ha9, \h24>>, <<\ha9, \ha4>>,
     <<\ha9, \h48>>, <<\ha9, \h88>>, <<\ha9, \h28>>, <<\ha9, \ha8>>,
     <<\ha9, \h52>>, <<\ha9, \h92>>, <<\ha9, \h22>>, <<\ha9, \ha2>>,
     <<\ha9, \h4a>>, <<\ha9, \h8a>>, <<\ha9, \h2a>>, <<\ha9, \haa>>,
     <<\h52, \h55>>, <<\h52, \h95>>, <<\h52, \h25>>, <<\h52, \ha5>>,
     <<\h52, \h49>>, <<\h52, \h89>>, <<\h52, \h29>>, <<\h52, \ha9>>,
     <<\h52, \h52>>, <<\h52, \h92>>, <<\h52, \h22>>, <<\h52, \ha2>>,
     <<\h52, \h4a>>, <<\h52, \h8a>>, <<\h52, \h2a>>, <<\h52, \haa>>,
     <<\h92, \h54>>, <<\h92, \h94>>, <<\h92, \h24>>, <<\h92, \ha4>>,
     <<\h92, \h48>>, <<\h92, \h88>>, <<\h92, \h28>>, <<\h92, \ha8>>,
     <<\h92, \h52>>, <<\h92, \h92>>, <<\h92, \h22>>, <<\h92, \ha2>>,
     <<\h92, \h4a>>, <<\h92, \h8a>>, <<\h92, \h2a>>, <<\h92, \haa>>,
     <<\h22, \h55>>, <<\h22, \h95>>, <<\h22, \h25>>, <<\h22, \ha5>>,
     <<\h22, \h49>>, <<\h22, \h89>>, <<\h22, \h29>>, <<\h22, \ha9>>,
     <<\h22, \h52>>, <<\h22, \h92>>, <<\h22, \h22>>, <<\h22, \ha2>>,
     <<\h22, \h4a>>, <<\h22, \h8a>>, <<\h22, \h2a>>, <<\h22, \haa>>,
     <<\ha2, \h54>>, <<\ha2, \h94>>, <<\ha2, \h24>>, <<\ha2, \ha4>>,
     <<\ha2, \h48>>, <<\ha2, \h88>>, <<\ha2, \h28>>, <<\ha2, \ha8>>,
     <<\ha2, \h52>>, <<\ha2, \h92>>, <<\ha2, \h22>>, <<\ha2, \ha2>>,
     <<\ha2, \h4a>>, <<\ha2, \h8a>>, <<\ha2, \h2a>>, <<\ha2, \haa>>,
     <<\h4a, \h55>>, <<\h4a, \h95>>, <<\h4a, \h25>>, <<\h4a, \ha5>>,
     <<\h4a, \h49>>, <<\h4a, \h89>>, <<\h4a, \h29>>, <<\h4a, \ha9>>,
     <<\h4a, \h52>>, <<\h4a, \h92>>, <<\h4a, \h22>>, <<\h4a, \ha2>>,
     <<\h4a, \h4a>>, <<\h4a, \h8a>>, <<\h4a, \h2a>>, <<\h4a, \haa>>,
     <<\h8a, \h54>>, <<\h8a, \h94>>, <<\h8a, \h24>>, <<\h8a, \ha4>>,
     <<\h8a, \h48>>, <<\h8a, \h88>>, <<\h8a, \h28>>, <<\h8a, \ha8>>,
     <<\h8a, \h52>>, <<\h8a, \h92>>, <<\h8a, \h22>>, <<\h8a, \ha2>>,
     <<\h8a, \h4a>>, <<\h8a, \h8a>>, <<\h8a, \h2a>>, <<\h8a, \haa>>,
     <<\h2a, \h55>>, <<\h2a, \h95>>, <<\h2a, \h25>>, <<\h2a, \ha5>>,
     <<\h2a, \h49>>, <<\h2a, \h89>>, <<\h2a, \h29>>, <<\h2a, \ha9>>,
     <<\h2a, \h52>>, <<\h2a, \h92>>, <<\h2a, \h22>>, <<\h2a, \ha2>>,
     <<\h2a, \h4a>>, <<\h2a, \h8a>>, <<\h2a, \h2a>>, <<\h2a, \haa>>,
     <<\haa, \h54>>, <<\haa, \h94>>, <<\haa, \h24>>, <<\haa, \ha4>>,
     <<\haa, \h48>>, <<\haa, \h88>>, <<\haa, \h28>>, <<\haa, \ha8>>,
     <<\haa, \h52>>, <<\haa, \h92>>, <<\haa, \h22>>, <<\haa, \ha2>>,
     <<\haa, \h4a>>, <<\haa, \h8a>>, <<\haa, \h2a>>, <<\haa, \haa>> >>

(* DD_interleave with a step that shares a factor with the sector count *)
DD_interleave_step12(side, track, sector, wtf80t) == (sector * 12) % DDFormat.sectors

(* DD_interleave taking the wtf80t table on side 1 of 80-track disks *)
DD_interleave_wtf80t(side, track, sector, wtf80t) ==
  IF wtf80t /\ side = 1 /\ track < 37
  THEN sector_interleave_wtf[((track * DDFormat.sectors + sector) % 27) + 1]
  ELSE (sector * 11) % DDFormat.sectors

DD_interleave(side, track, sector, wtf80t) == (sector * 11) % DDFormat.sectors

(* the dict of DDFormat.decode: word[0] << 8 | word[1] -> i; were a word    *)
(* listed twice, the comprehension would keep its last index                *)
lookup_keys == {ordw(mfm_codes[n]) : n \in 1..Len(mfm_codes)}

lookup ==
  [w \in lookup_keys |->
     (CHOOSE n \in 1..Len(mfm_codes) :
        /\ ordw(mfm_codes[n]) = w
        /\ \A m \in (n + 1)..Len(mfm_codes) : ordw(mfm_codes[m]) # w) - 1] @@ <<>>

(* extra_clock_bit that leaves the pattern as it is *)
no_clock_bit(w) == w

(* w | 0x0100 *)
extra_clock_bit(w) == IF Bit(w, 256) THEN w ELSE w + 256

(* lookup[w] raises KeyError, and so does the retry lookup[w | 0x0100] *)
DD_decode_word_fails(w) ==
  /\ w # \h2291
  /\ w \notin lookup_keys
  /\ extra_clock_bit(w) \notin lookup_keys

DD_decode_word(w) ==
  IF w = \h2291 THEN \ha1
  ELSE IF w \in lookup_keys THEN lookup[w]
  ELSE lookup[extra_clock_bit(w)]

(* the exception DDFormat.decode ends with: the first word it cannot look  *)
(* up is a KeyError; a last word of one byte is an IndexError in ordw      *)
DD_decode_error(stream) ==
  IF \E n \in 1..(Len(stream) \div 2) :
       DD_decode_word_fails(ordw(<<stream[2 * n - 1], stream[2 * n]>>))
  THEN "KeyError"
  ELSE IF Len(stream) % 2 # 0 THEN "IndexError"
  ELSE "none"

DD_decode(stream) ==
  list([n \in 1..(Len(stream) \div 2) |->
          DD_decode_word(ordw(<<stream[2 * n - 1], stream[2 * n]>>))])

DD_encode(track) ==
  list([k \in 1..(2 * Len(track)) |->
          mfm_codes[track[((k - 1) \div 2) + 1] + 1][((k - 1) % 2) + 1]])

(* DDFormat.fix_clocks reads the odd source indexes i and writes the even  *)
(* ones i + 1, so no write changes what a later round reads: byte k here   *)
(* (source index k - 1, even, at least 2) loses bit 0 iff byte k - 1 has   *)
(* bit 7.                                                                  *)
DD_fix_clocks(stream) ==
  list([k \in 1..Len(stream) |->
          IF k % 2 = 1 /\ k > 1 /\ Bit(stream[k - 1], 128)
          THEN stream[k] - (stream[k] % 2)
          ELSE stream[k]])

(* stream[i + 1] is past the end: the last i is len - 1 and has bit 7 *)
DD_fix_clocks_fails(stream) ==
  /\ Len(stream) > 0
  /\ Len(stream) % 2 = 0
  /\ Bit(stream[Len(stream)], 128)

----------------------------------------------------------------------------
(* the format classes as create_image and to_disk_image select and call them *)

encode(fmt, track) == IF fmt.dd THEN DD_encode(track) ELSE SD_encode(track)

decode(fmt, stream) == IF fmt.dd THEN DD_decode(stream) ELSE SD_decode(stream)

decode_error(fmt, stream) ==
  IF fmt.dd THEN DD_decode_error(stream)
  ELSE IF SD_decode_fails(stream) THEN "IndexError" ELSE "none"

interleave(fmt, side, track, sector, wtf80t) ==
  IF fmt.dd THEN DD_interleave(side, track, sector, wtf80t)
  ELSE SD_interleave(side, track, sector, wtf80t)

fix_clocks(fmt, stream) == IF fmt.dd THEN DD_fix_clocks(stream) ELSE SD_fix_clocks(stream)

fix_clocks_fails(fmt, stream) == fmt.dd /\ DD_fix_clocks_fails(stream)

----------------------------------------------------------------------------
(* class HFEDisk: writing *)

hfe_interface_mode == 7
hfe_bit_rate == 250
hfe_sd_encoding == 2
hfe_dd_encoding == 0
valid_encodings == {0, 2}

magic == <<72, 88, 67, 80, 73, 67, 70, 69>>   \* b"HXCPICFE"

(* image[0x10] == b"P" compares an int, the byte indexed out of a bytes    *)
(* object, with a bytes object: values of different types are never equal  *)
int_eq_bytes(byte, string) == FALSE

(* create_sector with both CRCs computed without the mark prefix *)
create_sector_crc_unmarked(tracks, fmt, sectors, s, j, i) ==
  LET track_id  == IF s # 0 THEN tracks - 1 - j ELSE j
      sector_id == interleave(fmt, s, j, i, tracks = 80)
      offset    == ((s * tracks + j) * fmt.sectors + sector_id) * 256
      sector    == Slice(sectors, offset, offset + 256)
      addr      == <<track_id, s, sector_id, 1>>
      crc1      == crc16(\hffff, addr)
      crc2      == crc16(\hffff, sector)
  IN  fmt.pregap \o fmt.address_mark \o encode(fmt, addr \o crc1) \o fmt.gap1
        \o fmt.data_mark \o encode(fmt, sector \o crc2) \o fmt.gap2

(* one round of the loop over i in create_tracks: the encoded sector *)
create_sector(tracks, fmt, sectors, s, j, i) ==
  LET track_id  == IF s # 0 THEN tracks - 1 - j ELSE j
      sector_id == interleave(fmt, s, j, i, tracks = 80)
      offset    == ((s * tracks + j) * fmt.sectors + sector_id) * 256
      sector    == Slice(sectors, offset, offset + 256)
      addr      == <<track_id, s, sector_id, 1>>
      crc1      == crc16(\hffff, fmt.vaddress_mark \o addr)
      crc2      == crc16(\hffff, fmt.vdata_mark \o sector)
  IN  fmt.pregap \o fmt.address_mark \o encode(fmt, addr \o crc1) \o fmt.gap1
        \o fmt.data_mark \o encode(fmt, sector \o crc2) \o fmt.gap2

RECURSIVE create_sector_data(_, _, _, _, _, _)
create_sector_data(tracks, fmt, sectors, s, j, i) ==
  IF i >= fmt.sectors THEN <<>>
  ELSE create_sector(tracks, fmt, sectors, s, j, i)
         \o create_sector_data(tracks, fmt, sectors, s, j, i + 1)

(* sector_data of the rounds j.. of side s when fix_clocks is called on it *)
RECURSIVE side_sector_data(_, _, _, _, _)
side_sector_data(tracks, fmt, sectors, s, j) ==
  IF j >= tracks THEN <<>>
  ELSE <<create_sector_data(tracks, fmt, sectors, s, j, 0)>>
         \o side_sector_data(tracks, fmt, sectors, s, j + 1)

(* sector_data of every round of create_tracks: [s + 1][j + 1] *)
all_sector_data(tracks, sides, fmt, sectors) ==
  << IF sides > 0 THEN side_sector_data(tracks, fmt, sectors, 0, 0) ELSE <<>>,
     IF sides > 1 THEN side_sector_data(tracks, fmt, sectors, 1, 0) ELSE <<>> >>

(* the exception create_tracks ends with, given the sector_data of its     *)
(* rounds: track_data has two lists, and fix_clocks may raise IndexError   *)
create_tracks_error(sides, fmt, rounds) ==
  IF \/ sides > 2
     \/ \E s \in 1..2 : \E n \in 1..Len(rounds[s]) : fix_clocks_fails(fmt, rounds[s][n])
  THEN "IndexError"
  ELSE "none"

(* create_track without the leadout *)
create_track_no_leadout(fmt, sector_data) == fmt.leadin \o fix_clocks(fmt, sector_data)

(* create_track without the call of fix_clocks *)
create_track_unfixed(fmt, sector_data) == fmt.leadin \o sector_data \o fmt.leadout

(* track as a round of create_tracks appends it to track_data[s] *)
create_track(fmt, sector_data) ==
  fmt.leadin \o fix_clocks(fmt, sector_data) \o fmt.leadout

RECURSIVE join_tracks(_, _, _)
join_tracks(fmt, side_rounds, n) ==
  IF n > Len(side_rounds) THEN <<>>
  ELSE create_track(fmt, side_rounds[n]) \o join_tracks(fmt, side_rounds, n + 1)

reverse(list_) == list([n \in 1..Len(list_) |-> list_[Len(list_) + 1 - n]])

(* create_tracks_joined without track_data[1].reverse() *)
create_tracks_joined_unreversed(fmt, rounds) ==
  << join_tracks(fmt, rounds[1], 1), join_tracks(fmt, rounds[2], 1) >>

(* what create_tracks returns, given the sector_data of its rounds *)
create_tracks_joined(fmt, rounds) ==
  << join_tracks(fmt, rounds[1], 1), join_tracks(fmt, reverse(rounds[2]), 1) >>

create_tracks(tracks, sides, fmt, sectors) ==
  create_tracks_joined(fmt, all_sector_data(tracks, sides, fmt, sectors))

create_header(tracks, sides, dd, protected) ==
  LET info == magic
                \o <<0, tracks, sides, IF dd THEN hfe_dd_encoding ELSE hfe_sd_encoding>>
                \o rchrw(hfe_bit_rate)
                \o rchrw(0)
                \o <<hfe_interface_mode, 1>>
                \o rchrw(1)
                \o (IF protected THEN <<\h00>> ELSE <<\hff>>)
  IN  info \o Rep(<<\hff>>, 512 - Len(info))

(* create_lut_entries with the offsets counted in blocks of 256 bytes *)
RECURSIVE create_lut_entries_256(_, _, _)
create_lut_entries_256(tracks, dd, i) ==
  IF i >= tracks THEN <<>>
  ELSE rchrw(\h62 * i + 4) \o (IF dd THEN <<\hc0, \h61>> ELSE <<\hb0, \h61>>)
         \o create_lut_entries_256(tracks, dd, i + 1)

RECURSIVE create_lut_entries(_, _, _)
create_lut_entries(tracks, dd, i) ==
  IF i >= tracks THEN <<>>
  ELSE rchrw(\h31 * i + 2) \o (IF dd THEN <<\hc0, \h61>> ELSE <<\hb0, \h61>>)
         \o create_lut_entries(tracks, dd, i + 1)

create_lut(tracks, dd) ==
  create_lut_entries(tracks, dd, 0) \o Rep(<<\hff>>, 512 - 4 * tracks)

(* the join of create_image over the rounds i = 256 * lo, ..., 256 * hi, as *)
(* its first and its second half                                            *)
RECURSIVE sandwich(_, _, _, _)
sandwich(side_0, side_1, lo, hi) ==
  IF lo > hi THEN <<>>
  ELSE IF lo = hi
  THEN Slice(side_0, 256 * lo, 256 * lo + 256)
         \o (IF Len(side_1) = 0 THEN Rep(<<0>>, 256)
             ELSE Slice(side_1, 256 * lo, 256 * lo + 256))
  ELSE sandwich(side_0, side_1, lo, (lo + hi) \div 2)
         \o sandwich(side_0, side_1, ((lo + hi) \div 2) + 1, hi)

(* create_image: the exception it ends with and the image it returns, from *)
(* one run of the rounds of create_tracks                                   *)
create_image_run(image_) ==
  LET tracks    == image_[\h11 + 1]
      sides     == image_[\h12 + 1]
      dd        == image_[\h13 + 1] = 2
      protected == int_eq_bytes(image_[\h10 + 1], <<80>>)
      header    == create_header(tracks, sides, dd, protected)
      lut       == create_lut(tracks, dd)
      fmt       == IF dd THEN DDFormat ELSE SDFormat
      rounds    == all_sector_data(tracks, sides, fmt, image_)
      side      == create_tracks_joined(fmt, rounds)
  IN  IF create_tracks_error(sides, fmt, rounds) # "none"
      THEN [err |-> create_tracks_error(sides, fmt, rounds), data |-> <<>>]
      ELSE IF Len(header) # 512 \/ Len(lut) # 512
      THEN [err |-> "AssertionError", data |-> <<>>]
      ELSE [err  |-> "none",
            data |-> header \o lut
                       \o sandwich(side[1], side[2], 0, chunk_count(side[1], 256) - 1)]

create_image(image_) == create_image_run(image_).data

----------------------------------------------------------------------------
(* class HFEDisk: reading *)

NoError == [kind |-> "none", msg |-> ""]
HFEError(msg) == [kind |-> "HFEError", msg |-> msg]
Raised(kind) == [kind |-> kind, msg |-> ""]

(* get_hfe_params_error comparing only the first four bytes of the magic *)
get_hfe_params_error_4(image_) ==
  IF Slice(image_, 0, 4) # Slice(magic, 0, 4) THEN HFEError("Not a HFE image")
  ELSE IF Len(image_) <= 16 THEN Raised("IndexError")
  ELSE NoError

(* the exception get_hfe_params ends with *)
get_hfe_params_error(image_) ==
  IF Slice(image_, 0, 8) # magic THEN HFEError("Not a HFE image")
  ELSE IF Len(image_) <= 16 THEN Raised("IndexError")
  ELSE NoError

(* tracks, sides, encoding, ifmode *)
get_hfe_params(image_) == <<image_[9 + 1], image_[10 + 1], image_[11 + 1], image_[16 + 1]>>

(* init_error with the interface mode checked before the encoding *)
init_error_mode_first(image_) ==
  LET header == Slice(image_, 0, 512)
      params == get_hfe_params(header)
  IN  IF get_hfe_params_error(header).kind # "none" THEN get_hfe_params_error(header)
      ELSE IF params[4] # 7 THEN HFEError("Invalid mode")
      ELSE IF params[3] # hfe_sd_encoding /\ params[3] # hfe_dd_encoding
      THEN HFEError("Invalid encoding")
      ELSE NoError

(* the exception HFEDisk.__init__ ends with *)
init_error(image_) ==
  LET header == Slice(image_, 0, 512)
      params == get_hfe_params(header)
  IN  IF get_hfe_params_error(header).kind # "none" THEN get_hfe_params_error(header)
      ELSE IF params[3] # hfe_sd_encoding /\ params[3] # hfe_dd_encoding
      THEN HFEError("Invalid encoding")
      ELSE IF params[4] # 7 THEN HFEError("Invalid mode")
      ELSE NoError

(* the fields HFEDisk.__init__ sets *)
HFEDisk(image_) ==
  LET header == Slice(image_, 0, 512)
      params == get_hfe_params(header)
  IN  [ header    |-> header,
        lut       |-> Slice(image_, 512, 1024),
        trackdata |-> Slice(image_, 1024, Len(image_)),
        tracks    |-> params[1],
        sides     |-> params[2],
        encoding  |-> params[3],
        ifmode    |-> params[4],
        dd        |-> params[3] = hfe_dd_encoding ]

(* b"".join(chunks[side::2]) of get_tracks, chunks = chunk(trackdata, 256): *)
(* byte k of it is byte (k mod 256) of chunk 2 * (k div 256) + side         *)
side_stream(trackdata, side) ==
  LET chunks == chunk_count(trackdata, 256)
      mine   == IF chunks > side THEN ((chunks - 1 - side) \div 2) + 1 ELSE 0
      size   == IF mine = 0 THEN 0
                ELSE 256 * (mine - 1)
                       + Len(chunk_at(trackdata, 256, 2 * (mine - 1) + side))
  IN  list([k \in 1..size |->
              trackdata[512 * ((k - 1) \div 256) + 256 * side + ((k - 1) % 256) + 1]])

(* the exception get_tracks ends with: that of decode, which runs on side 1 *)
(* only when self.sides == 2                                                *)
get_tracks_error(self) ==
  LET fmt == IF self.dd THEN DDFormat ELSE SDFormat
      e0  == decode_error(fmt, side_stream(self.trackdata, 0))
      e1  == IF self.sides = 2 THEN decode_error(fmt, side_stream(self.trackdata, 1))
             ELSE "none"
  IN  IF e0 # "none" THEN e0 ELSE e1

(* get_tracks without tracks1.reverse() *)
get_tracks_unreversed(self) ==
  LET fmt     == IF self.dd THEN DDFormat ELSE SDFormat
      size    == fmt.track_len
      tracks0 == chunk(decode(fmt, side_stream(self.trackdata, 0)), size)
      tracks1 == IF self.sides = 2
                 THEN chunk(decode(fmt, side_stream(self.trackdata, 1)), size)
                 ELSE <<>>
  IN  tracks0 \o tracks1

get_tracks(self) ==
  LET fmt     == IF self.dd THEN DDFormat ELSE SDFormat
      size    == fmt.track_len
      tracks0 == chunk(decode(fmt, side_stream(self.trackdata, 0)), size)
      tracks1 == IF self.sides = 2
                 THEN chunk(decode(fmt, side_stream(self.trackdata, 1)), size)
                 ELSE <<>>
  IN  tracks0 \o reverse(tracks1)

(* extract_sectors: the decoded length of one sector's region and the      *)
(* value of h0 when the loop over i reads each part of sector i            *)
sector_span(fmt) ==
  fmt.lvpregap + fmt.lvaddress_mark + 6 + fmt.lvgap1 + fmt.lvdata_mark + 258 + fmt.lvgap2

h0_address_mark(fmt, i) == fmt.lvleadin + i * sector_span(fmt) + fmt.lvpregap
h0_sector_id(fmt, i) == h0_address_mark(fmt, i) + fmt.lvaddress_mark
h0_data_mark(fmt, i) == h0_sector_id(fmt, i) + 6 + fmt.lvgap1
h0_sector_data(fmt, i) == h0_data_mark(fmt, i) + fmt.lvdata_mark

sector_id_at(fmt, track, i) == track[h0_sector_id(fmt, i) + 2 + 1]

(* the exception round i of the loop over i ends with, given the keys      *)
(* track_sectors holds when the round starts                               *)
sector_error(fmt, track, i, seen) ==
  IF Slice(track, h0_address_mark(fmt, i), h0_sector_id(fmt, i)) # fmt.vaddress_mark
  THEN "AssertionError"
  ELSE IF h0_sector_id(fmt, i) + 2 >= Len(track) THEN "IndexError"
  ELSE IF sector_id_at(fmt, track, i) \in seen THEN "AssertionError"
  ELSE IF Slice(track, h0_data_mark(fmt, i), h0_sector_data(fmt, i)) # fmt.vdata_mark
  THEN "AssertionError"
  ELSE "none"

(* the exception the rounds i.. of one track end with *)
RECURSIVE track_error(_, _, _, _)
track_error(fmt, track, i, seen) ==
  IF i >= fmt.sectors
  THEN IF fmt.lvleadin + fmt.sectors * sector_span(fmt) + fmt.lvleadout = Len(track)
       THEN "none" ELSE "AssertionError"
  ELSE IF sector_error(fmt, track, i, seen) # "none" THEN sector_error(fmt, track, i, seen)
  ELSE track_error(fmt, track, i + 1, seen \cup {sector_id_at(fmt, track, i)})

(* track_sectors when the loop over i is over: sector_id -> payload; a     *)
(* later slot with the same id would replace the earlier one               *)
track_sectors(fmt, track) ==
  LET ids == {sector_id_at(fmt, track, i) : i \in 0..(fmt.sectors - 1)}
      last(k) == CHOOSE i \in 0..(fmt.sectors - 1) :
                   /\ sector_id_at(fmt, track, i) = k
                   /\ \A m \in (i + 1)..(fmt.sectors - 1) : sector_id_at(fmt, track, m) # k
  IN  [k \in ids |->
         Slice(track, h0_sector_data(fmt, last(k)), h0_sector_data(fmt, last(k)) + 256)]

(* sorted_payloads with the keys taken from the largest down *)
RECURSIVE sorted_payloads_descending(_, _)
sorted_payloads_descending(sectors_, keys) ==
  IF keys = {} THEN <<>>
  ELSE LET k == CHOOSE x \in keys : \A y \in keys : x >= y
       IN  sectors_[k] \o sorted_payloads_descending(sectors_, keys \ {k})

(* flatten([track_sectors[k] for k in sorted(track_sectors)]) *)
RECURSIVE sorted_payloads(_, _)
sorted_payloads(sectors_, keys) ==
  IF keys = {} THEN <<>>
  ELSE LET k == CHOOSE x \in keys : \A y \in keys : x <= y
       IN  sectors_[k] \o sorted_payloads(sectors_, keys \ {k})

(* the exception extract_sectors ends with *)
RECURSIVE extract_error_from(_, _, _)
extract_error_from(fmt, tracks, j) ==
  IF j > Len(tracks) THEN "none"
  ELSE IF track_error(fmt, tracks[j], 0, {}) # "none" THEN track_error(fmt, tracks[j], 0, {})
  ELSE extract_error_from(fmt, tracks, j + 1)

extract_sectors_error(self, fmt, tracks) ==
  IF Len(tracks) # self.sides * self.tracks THEN HFEError("Invalid track count")
  ELSE IF Len(tracks) = 0 THEN Raised("IndexError")
  ELSE IF Len(tracks[1]) # fmt.track_len THEN Raised("AssertionError")
  ELSE Raised(extract_error_from(fmt, tracks, 1))

RECURSIVE extract_from(_, _, _)
extract_from(fmt, tracks, j) ==
  IF j > Len(tracks) THEN <<>>
  ELSE sorted_payloads(track_sectors(fmt, tracks[j]), DOMAIN track_sectors(fmt, tracks[j]))
         \o extract_from(fmt, tracks, j + 1)

extract_sectors(self, fmt, tracks) == extract_from(fmt, tracks, 1)

(* the exception to_disk_image ends with *)
to_disk_image_error(self) ==
  LET fmt == IF self.dd THEN DDFormat ELSE SDFormat
  IN  IF get_tracks_error(self) # "none" THEN Raised(get_tracks_error(self))
      ELSE extract_sectors_error(self, fmt, get_tracks(self))

to_disk_image(self) ==
  LET fmt == IF self.dd THEN DDFormat ELSE SDFormat
  IN  extract_sectors(self, fmt, get_tracks(self))

(* main, --from-hfe: the exception and the data of                          *)
(* HFEDisk(image).to_disk_image()                                           *)
from_hfe(file) ==
  LET self   == HFEDisk(file)
      fmt    == IF self.dd THEN DDFormat ELSE SDFormat
      tracks == get_tracks(self)
  IN  IF init_error(file).kind # "none" THEN [err |-> init_error(file), data |-> <<>>]
      ELSE IF get_tracks_error(self) # "none"
      THEN [err |-> Raised(get_tracks_error(self)), data |-> <<>>]
      ELSE IF extract_sectors_error(self, fmt, tracks).kind # "none"
      THEN [err |-> extract_sectors_error(self, fmt, tracks), data |-> <<>>]
      ELSE [err |-> NoError, data |-> extract_sectors(self, fmt, tracks)]

(* main, --dump: flatten(hfe.get_tracks()) joined into a str *)
dump(file) ==
  LET self == HFEDisk(file)
  IN  IF init_error(file).kind # "none" THEN [err |-> init_error(file), data |-> <<>>]
      ELSE IF get_tracks_error(self) # "none"
      THEN [err |-> Raised(get_tracks_error(self)), data |-> <<>>]
      ELSE [err |-> Raised("TypeError"), data |-> flatten(get_tracks(self))]

(* main, --hfe-info: what is written to stdout *)
hfe_info(file) ==
  LET params == get_hfe_params(file)
  IN  << [ tracks |-> params[1], sides |-> params[2], enc |-> params[3],
           ifmode |-> params[4],
           suitable |-> params[3] \in valid_encodings /\ params[4] = hfe_interface_mode ] >>

----------------------------------------------------------------------------
(* main: the files a session works on *)

(* The sector images drawn: the geometry bytes a TI disk carries in sector  *)
(* 0 (0x10 protected, 0x11 tracks, 0x12 sides, 0x13 density) and a payload  *)
(* in which byte k of sector n is (k + n) mod 256, so that no two sectors   *)
(* of a disk are alike.  The length is sides * tracks * sectors * 256.      *)
(* Byte 0x10 is a space (32) on the disks of every track count and the      *)
(* letter P (80) on the one-track disks.                                    *)
Geometries ==
  [tracks : 1..MaxTracks, sides : {1, 2}, density : {1, 2}, protected : {32}]
    \cup [tracks : {1}, sides : {1, 2}, density : {1, 2}, protected : {80}]

sector_image(g) ==
  LET fmt == IF g.density = 2 THEN DDFormat ELSE SDFormat
  IN  list([k \in 1..(g.sides * g.tracks * fmt.sectors * 256) |->
              CASE k - 1 = \h10 -> g.protected
                [] k - 1 = \h11 -> g.tracks
                [] k - 1 = \h12 -> g.sides
                [] k - 1 = \h13 -> g.density
                [] OTHER -> ((k - 1) + ((k - 1) \div 256)) % 256])

(* encoded bytes per byte: the length of every entry of the code table *)
factor(fmt) == Len(encode(fmt, <<0>>))

(* file with the encoded bytes e, e + 1, ... of the first track of side 0   *)
(* replaced by patch: create_image puts byte q of side s at                  *)
(* 1024 + 512 * (q div 256) + 256 * s + q mod 256                           *)
side0_index(q) == 1024 + 512 * (q \div 256) + (q % 256) + 1

patched(file, e, patch) ==
  list([k \in 1..Len(file) |->
          LET q == 256 * ((k - 1025) \div 512) + ((k - 1025) % 256)
          IN  IF k > 1024 /\ ((k - 1025) \div 256) % 2 = 0 /\ q >= e /\ q < e + Len(patch)
              THEN patch[q - e + 1]
              ELSE file[k]])

(* file with header byte at replaced by b *)
header_byte(file, at, b) == [file EXCEPT ![at + 1] = b]

(* The HFE files a reading command is given: the file --to-hfe wrote, as   *)
(* it is or changed in one place.                                           *)
HeaderEdits ==
  {"magic", "encoding1", "encoding3", "mode", "encoding3mode", "magic_encoding3"}
TrackEdits == {"address_mark", "data_mark", "sector_id", "truncated", "extended"}
(* the sectors of a track in another physical order, every field valid *)
OrderEdits == {"swapped_ids"}
Edits == {"none"} \cup HeaderEdits \cup TrackEdits \cup OrderEdits

(* the encoded sector ID field (track_id, side, sector_id, size, crc1) of    *)
(* slot i of the first track of side 0                                      *)
id_field(file, fmt, i) ==
  list([n \in 1..(factor(fmt) * 6) |->
          file[side0_index(factor(fmt) * h0_sector_id(fmt, i) + n - 1)]])

edited(file, k) ==
  LET fmt    == IF file[11 + 1] = hfe_dd_encoding THEN DDFormat ELSE SDFormat
      f      == factor(fmt)
  IN  CASE k = "none" -> file
        [] k = "magic" -> header_byte(file, 7, 70)
        [] k = "encoding1" -> header_byte(file, 11, 1)
        [] k = "encoding3" -> header_byte(file, 11, 3)
        [] k = "mode" -> header_byte(file, 16, 0)
        [] k = "encoding3mode" -> header_byte(header_byte(file, 11, 3), 16, 0)
        [] k = "magic_encoding3" -> header_byte(header_byte(file, 7, 70), 11, 3)
        [] k = "address_mark" ->
             patched(file, f * h0_address_mark(fmt, 0), fmt.data_mark)
        [] k = "data_mark" ->
             patched(file, f * h0_data_mark(fmt, 0), fmt.address_mark)
        [] k = "sector_id" ->
             patched(file, f * h0_sector_id(fmt, 1),
                     list([n \in 1..(f * 6) |->
                             file[side0_index(f * h0_sector_id(fmt, 0) + n - 1)]]))
        [] k = "swapped_ids" ->
             patched(patched(file, f * h0_sector_id(fmt, 1), id_field(file, fmt, 0)),
                     f * h0_sector_id(fmt, 0), id_field(file, fmt, 1))
        [] k = "truncated" -> Slice(file, 0, Len(file) - 512)
        [] k = "extended" -> file \o Slice(file, Len(file) - 512, Len(file))

(* --to-hfe: hfe = HFEDisk.create_image(image), written to the .hfe file,   *)
(* which the variable hfe holds; result holds what a reading command writes.*)
(* An exception other than IOError and HFEError leaves main uncaught.       *)
ToHfe ==
  /\ cmd = "start"
  /\ cmd' = "tohfe"
  /\ edit' = "none"
  /\ LET run == create_image_run(image)
     IN  IF run.err = "none"
         THEN hfe' = run.data /\ err' = NoError
         ELSE hfe' = hfe /\ err' = Raised(run.err)
  /\ result' = <<>>
  /\ stdout' = <<>>
  /\ UNCHANGED <<image, il>>

(* --from-hfe: dsk = HFEDisk(image).to_disk_image() *)
FromHfe(k) ==
  /\ cmd = "tohfe" /\ Len(hfe) > 0
  /\ cmd' = "fromhfe"
  /\ edit' = k
  /\ LET file == edited(hfe, k)
         run  == from_hfe(file)
     IN  hfe' = file /\ result' = run.data /\ err' = run.err
  /\ stdout' = <<>>
  /\ UNCHANGED <<image, il>>

(* --dump: the decoded tracks as a str, which writedata then refuses to     *)
(* write to a file opened "wb"                                              *)
Dump(k) ==
  /\ cmd = "tohfe" /\ Len(hfe) > 0
  /\ cmd' = "dump"
  /\ edit' = k
  /\ LET file == edited(hfe, k)
         run  == dump(file)
     IN  hfe' = file /\ result' = run.data /\ err' = run.err
  /\ stdout' = <<>>
  /\ UNCHANGED <<image, il>>

(* --hfe-info *)
HfeInfo(k) ==
  /\ cmd = "tohfe" /\ Len(hfe) > 0
  /\ cmd' = "hfeinfo"
  /\ edit' = k
  /\ LET file == edited(hfe, k)
     IN  /\ hfe' = file
         /\ err' = get_hfe_params_error(file)
         /\ stdout' = IF get_hfe_params_error(file).kind = "none"
                      THEN hfe_info(file) ELSE <<>>
  /\ result' = <<>>
  /\ UNCHANGED <<image, il>>

NoQuery == [dd |-> FALSE, side |-> 0, track |-> 0, wtf80t |-> FALSE, ids |-> <<>>]

Init ==
  /\ \E g \in Geometries : image = sector_image(g)
  /\ hfe = <<>>
  /\ edit = "none"
  /\ cmd = "start"
  /\ result = <<>>
  /\ stdout = <<>>
  /\ err = NoError
  /\ il = NoQuery

Next ==
  \/ ToHfe
  \/ \E k \in Edits : FromHfe(k)
  \/ \E k \in {"none", "mode"} : Dump(k)
  \/ \E k \in {"none"} \cup HeaderEdits : HfeInfo(k)

Spec == Init /\ [][Next]_vars

----------------------------------------------------------------------------
(* fmt.interleave on its own: the sector ids create_tracks gives the slots  *)
(* i = 0 .. fmt.sectors - 1 of one track                                    *)

Queries ==
  [dd : BOOLEAN, side : {0, 1}, track : 0..MaxTrackNo, wtf80t : BOOLEAN, ids : {<<>>}]

Interleave ==
  /\ il.ids = <<>>
  /\ LET fmt == IF il.dd THEN DDFormat ELSE SDFormat
     IN  il' = [il EXCEPT !.ids =
                  list([n \in 1..fmt.sectors |->
                          interleave(fmt, il.side, il.track, n - 1, il.wtf80t)])]
  /\ UNCHANGED <<image, hfe, edit, cmd, result, stdout, err>>

InitIl ==
  /\ il \in Queries
  /\ image = <<>>
  /\ hfe = <<>>
  /\ edit = "none"
  /\ cmd = "start"
  /\ result = <<>>
  /\ stdout = <<>>
  /\ err = NoError

NextIl == Interleave

SpecIl == InitIl /\ [][NextIl]_vars

----------------------------------------------------------------------------
(* One round j of the loop over the tracks of a side in create_tracks, for  *)
(* the track counts of the TI disk formats.  The sector image holds the     *)
(* geometry bytes only: create_tracks checks no length, sectors[offset:     *)
(* offset + 256] past the end is empty and the sector is encoded with an    *)
(* empty payload.                                                           *)

TrackCounts == {40, 80}

header_image(tracks, sides, density) ==
  list([k \in 1..(\h13 + 1) |->
          CASE k - 1 = \h10 -> 32
            [] k - 1 = \h11 -> tracks
            [] k - 1 = \h12 -> sides
            [] k - 1 = \h13 -> density
            [] OTHER -> 0])

(* the sector_id in the address field of the sector that round i of the     *)
(* loop over i encodes, read back from the encoded bytes                    *)
recorded_sector_id(tracks, fmt, sectors, s, j, i) ==
  decode(fmt, create_sector(tracks, fmt, sectors, s, j, i))
    [fmt.lvpregap + fmt.lvaddress_mark + 2 + 1]

Round ==
  /\ il.ids = <<>>
  /\ Len(image) > \h13
  /\ LET tracks == image[\h11 + 1]
         fmt    == IF image[\h13 + 1] = 2 THEN DDFormat ELSE SDFormat
     IN  il' = [il EXCEPT !.ids =
                  list([n \in 1..fmt.sectors |->
                          recorded_sector_id(tracks, fmt, image, il.side, il.track, n - 1)])]
  /\ UNCHANGED <<image, hfe, edit, cmd, result, stdout, err>>

InitRound ==
  /\ \E tracks \in TrackCounts : \E density \in {1, 2} :
       /\ image = header_image(tracks, 2, density)
       /\ il \in [dd : {density = 2}, side : {0, 1},
                   track : 0..Min(tracks - 1, MaxTrackNo), wtf80t : {FALSE}, ids : {<<>>}]
  /\ hfe = <<>>
  /\ edit = "none"
  /\ cmd = "start"
  /\ result = <<>>
  /\ stdout = <<>>
  /\ err = NoError

NextRound == Round

SpecRound == InitRound /\ [][NextRound]_vars

----------------------------------------------------------------------------
(* The MFM codec on its own: DDFormat.encode of two bytes, followed in the  *)
(* stream by encoded bytes as create_tracks puts them after a field,        *)
(* DDFormat.fix_clocks on the stream, DDFormat.decode of the result.  image *)
(* holds the bytes, hfe the encoded bytes that follow and then the stream.  *)

(* every pair of bytes: fix_clocks changes the pattern of a byte according  *)
(* to the byte before it only                                               *)
Pairs == {<<a, b>> : a, b \in 0..255}

(* what follows: the first pair of gap2 (4e), the address mark (three sync  *)
(* tokens 0x2291 and fe), a sync token alone, the pattern of the byte 01    *)
Following ==
  { Slice(DDFormat.gap2, 0, 2), DDFormat.address_mark,
    Slice(DDFormat.address_mark, 0, 2), DD_encode(<<1>>) }

Codec ==
  /\ cmd = "start"
  /\ cmd' = "codec"
  /\ LET stream == DD_encode(image) \o hfe
         fixed  == DD_fix_clocks(stream)
     IN  /\ hfe' = fixed
         /\ IF DD_fix_clocks_fails(stream)
            THEN err' = Raised("IndexError") /\ result' = <<>>
            ELSE IF DD_decode_error(fixed) # "none"
            THEN err' = Raised(DD_decode_error(fixed)) /\ result' = <<>>
            ELSE err' = NoError /\ result' = DD_decode(fixed)
  /\ UNCHANGED <<image, edit, stdout, il>>

InitCodec ==
  /\ image \in Pairs
  /\ hfe \in Following
  /\ edit = "none"
  /\ cmd = "start"
  /\ result = <<>>
  /\ stdout = <<>>
  /\ err = NoError
  /\ il = NoQuery

NextCodec == Codec

SpecCodec == InitCodec /\ [][NextCodec]_vars

----------------------------------------------------------------------------
(* Properties *)

(* the geometry of the sector image of the session *)
img_tracks == image[\h11 + 1]
img_sides == image[\h12 + 1]
img_fmt == IF image[\h13 + 1] = 2 THEN DDFormat ELSE SDFormat

(* the HFE file was written by --to-hfe and is read as it was written *)
Written == Len(hfe) > 0 /\ edit = "none"

(* track t (from 0) of the decoded tracks --dump holds *)
dumped_track(t) == Slice(result, t * img_fmt.track_len, (t + 1) * img_fmt.track_len)

(* the encoded track in slot p of side s of the HFE file, decoded *)
slot(s, p) ==
  LET size == img_fmt.track_len * factor(img_fmt)
  IN  decode(img_fmt, Slice(side_stream(Slice(hfe, 1024, Len(hfe)), s), p * size, (p + 1) * size))

(* the decoded track trk records track_id tid and side s in every address  *)
(* field and carries, under each recorded sector_id, that sector of track  *)
(* j of side s of the sector image                                         *)
TrackHolds(trk, s, j, tid) ==
  \A i \in 0..(img_fmt.sectors - 1) :
    /\ trk[h0_sector_id(img_fmt, i) + 1] = tid
    /\ trk[h0_sector_id(img_fmt, i) + 1 + 1] = s
    /\ Slice(trk, h0_sector_data(img_fmt, i), h0_sector_data(img_fmt, i) + 256)
         = Slice(image,
                 ((s * img_tracks + j) * img_fmt.sectors + sector_id_at(img_fmt, trk, i)) * 256,
                 ((s * img_tracks + j) * img_fmt.sectors + sector_id_at(img_fmt, trk, i)) * 256 + 256)

C2_CrcResidue ==
  (cmd = "dump" /\ Written) =>
    \A t \in 0..(img_sides * img_tracks - 1) : \A i \in 0..(img_fmt.sectors - 1) :
      /\ crc16(\hffff, img_fmt.vaddress_mark
                         \o Slice(dumped_track(t), h0_sector_id(img_fmt, i),
                                  h0_sector_id(img_fmt, i) + 6)) = <<0, 0>>
      /\ crc16(\hffff, img_fmt.vdata_mark
                         \o Slice(dumped_track(t), h0_sector_data(img_fmt, i),
                                  h0_sector_data(img_fmt, i) + 258)) = <<0, 0>>

C2_Witness ==
  /\ cmd = "dump" /\ Written
  /\ Len(result) = img_sides * img_tracks * img_fmt.track_len
  /\ img_fmt.dd /\ img_sides = 2
  /\ Slice(dumped_track(0), h0_sector_id(img_fmt, 1), h0_sector_id(img_fmt, 1) + 4)
       = <<0, 0, 11, 1>>

(* C3: Interleave injectivity.  For each format, side, track and value of  *)
(* the 80-track flag, the sector ids interleave gives the slots            *)
(* 0 .. sectors - 1 are pairwise distinct and are exactly 0 .. sectors - 1. *)
C3_InterleaveBijective ==
  il.ids # <<>> =>
    LET sectors == IF il.dd THEN DDFormat.sectors ELSE SDFormat.sectors
    IN  /\ Len(il.ids) = sectors
        /\ {il.ids[n] : n \in 1..sectors} = 0..(sectors - 1)
        /\ \A m, n \in 1..sectors : il.ids[m] = il.ids[n] => m = n

C3_Witness ==
  /\ il.ids = <<4, 2, 0, 7, 5, 3, 1, 8, 6>>
  /\ ~il.dd /\ il.side = 1 /\ il.wtf80t /\ il.track = 0

(* C4: Side-1 track reversal.  In the HFE file --to-hfe wrote for a        *)
(* two-sided disk, slot j of side 0 records track_id j and holds logical   *)
(* track j of side 0, and slot tracks-1-j of side 1 records track_id       *)
(* tracks-1-j and holds logical track j of side 1; the decoded tracks of   *)
(* get_tracks are the side-0 slots in order and then the side-1 slots in   *)
(* reverse, so that decoded side-1 track j is logical track j.             *)
C4_Side1Reversed ==
  (cmd = "dump" /\ Written /\ img_sides = 2) =>
    \A j \in 0..(img_tracks - 1) :
      /\ TrackHolds(slot(0, j), 0, j, j)
      /\ TrackHolds(slot(1, img_tracks - 1 - j), 1, j, img_tracks - 1 - j)
      /\ dumped_track(j) = slot(0, j)
      /\ dumped_track(img_tracks + j) = slot(1, img_tracks - 1 - j)

C4_Witness ==
  /\ cmd = "dump" /\ Written /\ img_sides = 2 /\ img_tracks >= 2
  /\ dumped_track(img_tracks)[h0_sector_id(img_fmt, 0) + 1] = img_tracks - 1
  /\ dumped_track(img_tracks) # dumped_track(2 * img_tracks - 1)

(* C5: Length laws.  Every track a round of create_tracks emits is         *)
(* 3136 * 4 = 12544 bytes for SD and 6272 * 2 = 12544 bytes for DD, and    *)
(* the HFE file is 1024 bytes of header and LUT followed by                *)
(* tracks * 2 * ceil(track_len * factor / 256) * 256 bytes, one-sided or   *)
(* two-sided.                                                               *)
C5_LengthLaws ==
  (cmd = "tohfe" /\ err = NoError) =>
    LET rounds == all_sector_data(img_tracks, img_sides, img_fmt, image)
        size   == img_fmt.track_len * factor(img_fmt)
    IN  /\ size = 12544
        /\ img_fmt.dd => size = 6272 * 2
        /\ ~img_fmt.dd => size = 3136 * 4
        /\ \A s \in 1..2 : \A n \in 1..Len(rounds[s]) :
             Len(create_track(img_fmt, rounds[s][n])) = size
        /\ Len(rounds[1]) = img_tracks
        /\ Len(hfe) = 1024 + img_tracks * 2 * ((size + 255) \div 256) * 256

C5_Witness ==
  /\ cmd = "tohfe" /\ err = NoError
  /\ img_sides = 1 /\ ~img_fmt.dd /\ img_tracks >= 2
  /\ Len(hfe) = 1024 + img_tracks * 25088

(* C6: Header rejection.  Reading an HFE file with the right magic ends    *)
(* with HFEError "Invalid encoding" whenever header byte 0x0B is neither 0 *)
(* nor 2, whatever byte 0x10 is, and with HFEError "Invalid mode" whenever *)
(* byte 0x0B is 0 or 2 and byte 0x10 is not 7; a wrong magic is reported   *)
(* before either; no data is returned for a file so rejected.              *)
C6_HeaderRejected ==
  (cmd \in {"fromhfe", "dump"} /\ Len(hfe) > 16) =>
    /\ (Slice(hfe, 0, 8) # magic) => (err.kind = "HFEError" /\ err.msg = "Not a HFE image")
    /\ (Slice(hfe, 0, 8) = magic /\ hfe[\h0B + 1] \notin {0, 2})
         => (err = HFEError("Invalid encoding") /\ result = <<>>)
    /\ (Slice(hfe, 0, 8) = magic /\ hfe[\h0B + 1] \in {0, 2} /\ hfe[\h10 + 1] # 7)
         => (err = HFEError("Invalid mode") /\ result = <<>>)

C6_Witness ==
  /\ cmd = "fromhfe" /\ edit = "encoding3mode"
  /\ hfe[\h0B + 1] = 3 /\ hfe[\h10 + 1] = 0
  /\ err = HFEError("Invalid encoding")

(* C7 as claimed: an input whose first 8 bytes are not HXCPICFE makes      *)
(* --from-hfe and --hfe-info end with HFEError "Not an HFE image".          *)
C7_NotAnHfeImage ==
  (cmd \in {"fromhfe", "hfeinfo"} /\ Slice(hfe, 0, 8) # magic)
    => err = HFEError("Not an HFE image")

(* C7, amended: an input whose first 8 bytes are not HXCPICFE makes        *)
(* --from-hfe and --hfe-info end with HFEError "Not a HFE image", and      *)
(* nothing is returned or printed.                                          *)
C7_NotAHfeImage ==
  (cmd \in {"fromhfe", "hfeinfo"} /\ Slice(hfe, 0, 8) # magic)
    => (err = HFEError("Not a HFE image") /\ result = <<>> /\ stdout = <<>>)

C7_Witness ==
  /\ cmd = "hfeinfo" /\ edit = "magic"
  /\ Slice(hfe, 0, 8) = <<72, 88, 67, 80, 73, 67, 70, 70>>
  /\ err.kind = "HFEError"

(* C8 as claimed: when a decoded track has an address or data mark other   *)
(* than the format's, or the same sector_id twice, or does not end at      *)
(* track_len, --from-hfe ends with HFEError, the exception main catches.    *)
C8_ParserRaisesHfeError ==
  (cmd = "fromhfe" /\ edit \in {"address_mark", "data_mark", "sector_id", "truncated"})
    => err.kind = "HFEError"

(* C9 as claimed: the HFE file --to-hfe writes has header byte 0x14 equal  *)
(* to 0x00 when byte 0x10 of the sector image is the character P, and to   *)
(* 0xFF otherwise.                                                          *)
C9_WriteProtect ==
  (cmd = "tohfe" /\ err = NoError) =>
    hfe[\h14 + 1] = (IF image[\h10 + 1] = 80 THEN \h00 ELSE \hff)

(* C10: LUT offsets.  In the HFE file --to-hfe wrote, the LUT is bytes     *)
(* 512..1023; entry k < tracks holds the little-endian offset 0x31 * k + 2,*)
(* that offset times 512 is 1024 + k * 2 * track_len * factor, the block   *)
(* of 256 bytes there is the start of the side-0 track recording track_id  *)
(* k and, for a two-sided disk, the next block the start of the side-1     *)
(* track recording track_id k; every byte after the entries is 0xFF.       *)
C10_LutOffsets ==
  (cmd = "tohfe" /\ err = NoError) =>
    LET lut  == Slice(hfe, 512, 1024)
        size == img_fmt.track_len * factor(img_fmt)
        first(at) == decode(img_fmt, Slice(hfe, at, at + 256))
    IN  /\ Len(lut) = 512
        /\ \A n \in (4 * img_tracks + 1)..512 : lut[n] = \hff
        /\ \A k \in 0..(img_tracks - 1) :
             LET offset == lut[4 * k + 1] + 256 * lut[4 * k + 2]
             IN  /\ offset = \h31 * k + 2
                 /\ offset * 512 = 1024 + k * 2 * size
                 /\ Slice(first(offset * 512), 0, img_fmt.lvleadin)
                      = decode(img_fmt, img_fmt.leadin)
                 /\ first(offset * 512)[h0_sector_id(img_fmt, 0) + 1] = k
                 /\ first(offset * 512)[h0_sector_id(img_fmt, 0) + 1 + 1] = 0
                 /\ img_sides = 2 =>
                      /\ first(offset * 512 + 256)[h0_sector_id(img_fmt, 0) + 1] = k
                      /\ first(offset * 512 + 256)[h0_sector_id(img_fmt, 0) + 1 + 1] = 1

C10_Witness ==
  /\ cmd = "tohfe" /\ err = NoError /\ img_tracks >= 2 /\ img_sides = 2
  /\ Slice(hfe, 512, 520) = <<\h02, \h00, \hc0, \h61, \h33, \h00, \hc0, \h61>>


(* the bytes the HFE file holds for one track: what follows header and LUT, *)
(* divided evenly among the tracks                                          *)
stored_per_track == (Len(hfe) - 1024) \div img_tracks

(* C11 as claimed: in the HFE file --to-hfe wrote, the little-endian       *)
(* length in bytes 2..3 of every used LUT entry is 0x61B0 for SD and       *)
(* 0x61C0 for DD and equals the number of bytes the file holds for that    *)
(* track, the side-0 and the side-1 blocks together.                        *)
C11_LutLengthIsStored ==
  (cmd = "tohfe" /\ err = NoError) =>
    \A k \in 0..(img_tracks - 1) :
      LET length == hfe[512 + 4 * k + 2 + 1] + 256 * hfe[512 + 4 * k + 3 + 1]
      IN  /\ length = (IF img_fmt.dd THEN \h61c0 ELSE \h61b0)
          /\ length = stored_per_track
          /\ length = 2 * Len(create_track(img_fmt,
                                 all_sector_data(img_tracks, img_sides, img_fmt, image)[1][k + 1]))


(* the decoded tracks of the HFE file in the order get_tracks returns them: *)
(* position t < tracks is slot t of side 0, position tracks + j is slot     *)
(* tracks - 1 - j of side 1 (logical track j of side 1)                     *)
track_at(t) ==
  IF t < img_tracks THEN slot(0, t) ELSE slot(1, img_tracks - 1 - (t - img_tracks))

(* the number of slots of trk that record a sector_id below that of slot i *)
rank(trk, i) ==
  Cardinality({m \in 0..(img_fmt.sectors - 1) :
                 sector_id_at(img_fmt, trk, m) < sector_id_at(img_fmt, trk, i)})

(* C12: Sorted extraction.  When --from-hfe returns without an exception   *)
(* (every mark valid, the sector_ids of each track distinct), the data is  *)
(* 256 bytes per slot; the payload of slot i of the track at position t    *)
(* (side 0 tracks 0..n-1, then side 1 logical tracks 0..n-1) is at         *)
(* (t * sectors + r) * 256, r the number of slots of that track recording  *)
(* a smaller sector_id, whatever slot order the sectors have on the track. *)
C12_SortedExtraction ==
  (cmd = "fromhfe" /\ err = NoError) =>
    /\ Len(result) = img_sides * img_tracks * img_fmt.sectors * 256
    /\ \A t \in 0..(img_sides * img_tracks - 1) :
         LET trk == track_at(t)
         IN  \A i \in 0..(img_fmt.sectors - 1) :
               Slice(result, (t * img_fmt.sectors + rank(trk, i)) * 256,
                             (t * img_fmt.sectors + rank(trk, i)) * 256 + 256)
                 = Slice(trk, h0_sector_data(img_fmt, i), h0_sector_data(img_fmt, i) + 256)

C12_Witness ==
  /\ cmd = "fromhfe" /\ edit = "swapped_ids" /\ err = NoError
  /\ img_sides = 2 /\ img_tracks >= 2
  /\ sector_id_at(img_fmt, track_at(0), 0) > sector_id_at(img_fmt, track_at(0), 1)
  /\ result # image
  /\ Slice(result, 0, 256)
       = Slice(track_at(0), h0_sector_data(img_fmt, 1), h0_sector_data(img_fmt, 1) + 256)


(* the row of 9 ids of the table at the index of sector 0 of track *)
table_row(table, track) ==
  list([n \in 1..SDFormat.sectors |->
          table[((track * SDFormat.sectors + n - 1) % 27) + 1]])

(* C13: wtf80t applicability (SD).  The sector_ids a round of create_tracks *)
(* records on an SD track are those of the standard table at index          *)
(* (track * 9 + sector) mod 27 whenever the track count is not 80 or the     *)
(* side is 0; when the track count is 80 and the side is 1 they are those of *)
(* the wtf80t table at that index for tracks below 37 and those of the       *)
(* standard table at index ((track - 37) * 9 + sector) mod 27 from track 37  *)
(* on; they differ from the standard ones exactly when the track count is 80 *)
(* and the side is 1.                                                        *)
C13_Wtf80tApplicability ==
  (il.ids # <<>> /\ ~il.dd) =>
    LET is_80t == image[\h11 + 1] = 80
    IN  /\ (~is_80t \/ il.side = 0) => il.ids = table_row(SD_sector_interleave, il.track)
        /\ (is_80t /\ il.side = 1 /\ il.track < 37)
             => il.ids = table_row(sector_interleave_wtf, il.track)
        /\ (is_80t /\ il.side = 1 /\ il.track >= 37)
             => il.ids = table_row(SD_sector_interleave, il.track - 37)
        /\ (il.ids # table_row(SD_sector_interleave, il.track)) <=> (is_80t /\ il.side = 1)

C13_Witness ==
  /\ ~il.dd /\ image[\h11 + 1] = 80 /\ il.side = 1 /\ il.track = 36
  /\ il.ids = <<4, 2, 0, 7, 5, 3, 1, 8, 6>>


(* the sector_ids round j of side 0 records for the image of the round *)
side_0_ids(j) ==
  list([n \in 1..img_fmt.sectors |->
          recorded_sector_id(img_tracks, img_fmt, image, 0, j, n - 1)])

(* C14 as claimed: on side-1 tracks below 37 of a DD disk of 80 tracks and *)
(* 2 sides the recorded sector_ids are those of the wtf80t table and not   *)
(* those recorded on side 0.                                                *)
C14_DDWtf80t ==
  (il.ids # <<>> /\ il.dd /\ img_tracks = 80 /\ img_sides = 2 /\ il.side = 1 /\ il.track < 37) =>
    /\ \A n \in 1..Len(il.ids) :
         il.ids[n] = sector_interleave_wtf[((il.track * DDFormat.sectors + n - 1) % 27) + 1]
    /\ il.ids # side_0_ids(il.track)

(* C14, amended: on every track of either side of a DD disk, of 80 tracks  *)
(* and 2 sides as of 40, slot i records sector_id (i * 11) mod 18, so      *)
(* side-1 tracks, below 37 or not, carry the ids side 0 carries.           *)
C14_DDIgnoresWtf80t ==
  (il.ids # <<>> /\ il.dd) =>
    /\ Len(il.ids) = 18
    /\ \A n \in 1..18 : il.ids[n] = ((n - 1) * 11) % 18
    /\ il.ids = side_0_ids(il.track)

C14_Witness ==
  /\ il.dd /\ img_tracks = 80 /\ img_sides = 2 /\ il.side = 1 /\ il.track = 36
  /\ il.ids = <<0, 11, 4, 15, 8, 1, 12, 5, 16, 9, 2, 13, 6, 17, 10, 3, 14, 7>>


(* the encoded track in slot p of side s of the HFE file, as stored *)
encoded_slot(s, p) ==
  LET size == img_fmt.track_len * factor(img_fmt)
  IN  Slice(side_stream(Slice(hfe, 1024, Len(hfe)), s), p * size, (p + 1) * size)

(* the slot of side s that holds the track of round j: side 1 is reversed *)
slot_of(s, j) == IF s = 1 THEN img_tracks - 1 - j ELSE j

(* C15: Clock fix-up scope.  Every encoded track of the HFE file --to-hfe  *)
(* wrote, built as leadin + fix_clocks(sector_data) + leadout, is byte for *)
(* byte fix_clocks(leadin + sector_data + leadout), for SD and DD, and     *)
(* fix_clocks reads or writes no index past the end of the sector region   *)
(* or of the full stream.                                                   *)
C15_FixClocksScope ==
  (cmd = "tohfe" /\ err = NoError) =>
    LET rounds == all_sector_data(img_tracks, img_sides, img_fmt, image)
    IN  \A s \in 0..(img_sides - 1) : \A j \in 0..(img_tracks - 1) :
          LET sector_data == rounds[s + 1][j + 1]
              full        == img_fmt.leadin \o sector_data \o img_fmt.leadout
          IN  /\ encoded_slot(s, slot_of(s, j)) = fix_clocks(img_fmt, full)
              /\ ~fix_clocks_fails(img_fmt, sector_data)
              /\ ~fix_clocks_fails(img_fmt, full)

C15_Witness ==
  /\ cmd = "tohfe" /\ err = NoError /\ img_fmt.dd /\ img_sides = 2
  /\ LET sector_data == create_sector_data(img_tracks, img_fmt, image, 1, 0, 0)
     IN  /\ fix_clocks(img_fmt, sector_data) # sector_data
         /\ encoded_slot(1, img_tracks - 1)
              = img_fmt.leadin \o fix_clocks(img_fmt, sector_data) \o img_fmt.leadout


(* the 2-byte pattern n (from 1) of an encoded stream as a word *)
pattern(stream, n) == ordw(<<stream[2 * n - 1], stream[2 * n]>>)

============================================================================
